---- MODULE Spec2Model ----
(***************************************************************************)
(* Tap detector of tap_to_play: src/tap_detect.c with the constants of its *)
(* header (src/unnamed/part_000) and the block loop of src/main.c.         *)
(*                                                                         *)
(* One call of tap_detect_status is one step.  The static variables of     *)
(* tap_detect.c are the state; the locals of the last call that the        *)
(* properties speak of (result, num_peaks_this_block, cd_len, ...) are     *)
(* kept as variables too.                                                  *)
(***************************************************************************)
EXTENDS Integers, FiniteSets, Sequences, TLC

(***************************************************************************)
(* Bounds of the model.                                                    *)
(***************************************************************************)
\* frame size of the model: the length of a full block (MAX_AUDIO_FRAME_SIZE is
\* 192 in the code) and the longest block fed to the detector
FrameLen == 4
\* number of calls of tap_detect_status explored under Spec and SpecC
MaxBlocks == 236
\* number of calls explored under SpecAnyLen (blocks of every length >= 2)
MaxShortBlocks == 102
\* number of calls explored under SpecRange (samples at the ends of their range)
MaxRangeBlocks == 2
\* number of calls explored under SpecSpacing: past a first tap, the single-tap
\* of a second one 131 blocks later and a double-tap 41 blocks after that
MaxSpacingBlocks == 276
\* SpecWrap: calls left before current_block_cnt reaches INT32_MAX, and calls
\* explored after it
WrapLead == 3
WrapTail == 135
\* latest block index of the first transient of scenario C
MaxFirst == 104

(***************************************************************************)
(* Constants of the program.                                               *)
(***************************************************************************)
MAX_AUDIO_FRAME_SIZE == 192
MAX_SIG_LEN_SIZE == 192
MAX_CD1_LEN == (MAX_AUDIO_FRAME_SIZE \div 2) + 1
TRANSIENT_THRESHOLD_MIN_FXP == 16106127
TRANSIENT_THRESHOLD_MAX_FXP == 16106127 * 2
TAP_NONE == 0
TAP_SINGLE == 256
TAP_DOUBLE == 65536
\* static int32_t cooldown_block_cnt = 100;
InitialCooldown == 100
\* cooldown_block_cnt = 40;
CooldownBlocks == 40
\* blocks_since_first_tap <= 130
TapWindow == 130

(***************************************************************************)
(* The part of the static buffers a block of at most FrameLen samples can    *)
(* touch.  analysis_sig has MAX_SIG_LEN_SIZE entries and coeff_cd1 has     *)
(* MAX_CD1_LEN = frame size / 2 + 1; the entries past the ones kept here   *)
(* are never written and stay 0.                                           *)
(***************************************************************************)
SigCap == FrameLen
Cd1Cap == (FrameLen \div 2) + 1
SigIdx == 0 .. (SigCap - 1)
Cd1Idx == 0 .. (Cd1Cap - 1)

\* the history of results is kept up to this distance in calls: a result
\* further back, or none at all, counts as SpacingCap calls back
SpacingCap == CooldownBlocks + 1

VARIABLES
    analysis_sig,          \* static int analysis_sig[]
    coeff_cd1,             \* static int coeff_cd1[]
    cooldown_block_cnt,    \* static int32_t cooldown_block_cnt
    current_block_cnt,     \* static int32_t current_block_cnt
    first_tap_pending,     \* static bool first_tap_pending
    first_tap_block_time,  \* static uint32_t first_tap_block_time
    result,                \* value returned by the last call
    audio_sig_len,         \* argument of the last call (0 before the first)
    cd_len,                \* local cd_len of the last call
    num_peaks_this_block,  \* local num_peaks_this_block of the last call
    peaks_checked,         \* the last call invoked tap_detect_find_peaks
    cd1_reads,             \* indices of coeff_cd1 tap_detect_find_peaks read
    last_peak_block,       \* history: block counter of the last registered peak
    train,                 \* history: position in a train of qualifying blocks
    all_silent,            \* history: every block so far was all zero
    first_transient,       \* scenario C: block index of the first transient
    mic_sig,               \* arguments mic1_sig, mic2_sig of the last call
    overflow,              \* history: an int addition or subtraction overflowed
    calls_since_first_tap, \* history: calls since the pending tap was recorded
    unreported,            \* history: registered peaks - singles - 2 * doubles
    since_result,          \* history: calls since the last one that did not
                           \* return TAP_NONE, counted up to SpacingCap
    result_gap             \* history: distance in calls from that call to the
                           \* one before it, counted up to SpacingCap + 1

vars == << analysis_sig, coeff_cd1, cooldown_block_cnt, current_block_cnt,
           first_tap_pending, first_tap_block_time, result, audio_sig_len,
           cd_len, num_peaks_this_block, peaks_checked, cd1_reads,
           last_peak_block, train, all_silent, first_transient, mic_sig,
           overflow, calls_since_first_tap, unreported, since_result,
           result_gap >>

(***************************************************************************)
(* Signal processing.                                                      *)
(***************************************************************************)
\* int, int32_t and uint32_t are 32 bits wide.  A uint32_t is kept as the
\* int32_t of the same bit pattern.
INT32_MAX == 2147483647
INT32_MIN == (0 - INT32_MAX) - 1

\* the exact x + y, x - y is above INT32_MAX, below INT32_MIN
AddOverflowsUp(x, y) == (x > 0) /\ (y > 0) /\ (x > INT32_MAX - y)
AddOverflowsDown(x, y) == (x < 0) /\ (y < 0) /\ (x < INT32_MIN - y)
SubOverflowsUp(x, y) == (y < 0) /\ (x > INT32_MAX + y)
SubOverflowsDown(x, y) == (y > 0) /\ (x < INT32_MIN + y)
AddOverflows(x, y) == AddOverflowsUp(x, y) \/ AddOverflowsDown(x, y)
SubOverflows(x, y) == SubOverflowsUp(x, y) \/ SubOverflowsDown(x, y)

\* x + y and x - y in 32 bits, two's complement: the exact value modulo 2^32
AddWrap32(x, y) ==
    IF AddOverflowsUp(x, y) THEN (x + INT32_MIN) + (y + INT32_MIN)
    ELSE IF AddOverflowsDown(x, y) THEN (x - INT32_MIN) + (y - INT32_MIN)
    ELSE x + y
SubWrap32(x, y) ==
    IF SubOverflowsUp(x, y) THEN (x + INT32_MIN) - (y - INT32_MIN)
    ELSE IF SubOverflowsDown(x, y) THEN (x - INT32_MIN) - (y + INT32_MIN)
    ELSE x - y

ShiftRight1_none(x) == x

\* (a + b) >> 1 on int: arithmetic shift, i.e. division by 2 rounding down
ShiftRight1(x) == x \div 2

\* for (n < audio_sig_len) analysis_sig[n] = (mic1_sig[n] + mic2_sig[n]) >> 1;
\* An int sum that overflows is undefined in C: SumOverflows records it, and
\* the buffer then holds the sum a two's complement addition leaves.
CombineSignals(mic1_sig, mic2_sig, sig_len, buf) ==
    [n \in DOMAIN buf |->
        IF n < sig_len THEN ShiftRight1(AddWrap32(mic1_sig[n], mic2_sig[n]))
        ELSE buf[n]]

SumOverflows(mic1_sig, mic2_sig, sig_len) ==
    \E n \in 0 .. (sig_len - 1) : AddOverflows(mic1_sig[n], mic2_sig[n])

\* some difference inp_sig[2n+1] - inp_sig[2n] of the transform overflows int
HaarOverflows(inp_sig, sig_len) ==
    \E n \in 0 .. ((sig_len \div 2) - 1) :
        SubOverflows(inp_sig[(2 * n) + 1], inp_sig[2 * n])

tap_detect_haar_dwt_l1_swapped(inp_sig, sig_len, cd1) ==
    LET cd_len_out == sig_len \div 2
    IN  [coeff |-> [n \in DOMAIN cd1 |->
                      IF n < cd_len_out
                      THEN SubWrap32(inp_sig[2 * n], inp_sig[(2 * n) + 1])
                      ELSE cd1[n]],
         cd_len_out |-> cd_len_out]

\* writes cd1[0 .. (sig_len >> 1) - 1]; the rest of cd1 keeps its old values
tap_detect_haar_dwt_l1(inp_sig, sig_len, cd1) ==
    LET cd_len_out == sig_len \div 2
    IN  [coeff |-> [n \in DOMAIN cd1 |->
                      IF n < cd_len_out
                      THEN SubWrap32(inp_sig[(2 * n) + 1], inp_sig[2 * n])
                      ELSE cd1[n]],
         cd_len_out |-> cd_len_out]

(***************************************************************************)
(* Peak detection.  inp_sig is the memory tap_detect_find_peaks sees       *)
(* through its pointer: index -1 is the word in front of the buffer.       *)
(***************************************************************************)
InBand(v, min_threshold, max_threshold) ==
    (v >= min_threshold) /\ (v <= max_threshold)

\* the n = 0 test
FirstIsPeak(inp_sig, min_threshold, max_threshold) ==
    InBand(inp_sig[0], min_threshold, max_threshold) /\ (inp_sig[0] > inp_sig[1])

InteriorIsPeak_nonStrict(inp_sig, n, min_threshold, max_threshold) ==
    /\ InBand(inp_sig[n], min_threshold, max_threshold)
    /\ inp_sig[n] >= inp_sig[n - 1]
    /\ inp_sig[n] > inp_sig[n + 1]

\* the test of the loop body, 1 <= n < sig_len - 1
InteriorIsPeak(inp_sig, n, min_threshold, max_threshold) ==
    /\ InBand(inp_sig[n], min_threshold, max_threshold)
    /\ inp_sig[n] > inp_sig[n - 1]
    /\ inp_sig[n] > inp_sig[n + 1]

\* the n = sig_len - 1 test
LastIsPeak_skipped(inp_sig, sig_len, min_threshold, max_threshold) ==
    FALSE

LastIsPeak(inp_sig, sig_len, min_threshold, max_threshold) ==
    /\ InBand(inp_sig[sig_len - 1], min_threshold, max_threshold)
    /\ inp_sig[sig_len - 1] > inp_sig[sig_len - 2]

RECURSIVE InteriorPeaks(_, _, _, _, _)
InteriorPeaks(inp_sig, sig_len, n, min_threshold, max_threshold) ==
    IF n < sig_len - 1
    THEN (IF InteriorIsPeak(inp_sig, n, min_threshold, max_threshold) THEN 1 ELSE 0)
         + InteriorPeaks(inp_sig, sig_len, n + 1, min_threshold, max_threshold)
    ELSE 0

tap_detect_find_peaks_noMax(inp_sig, sig_len, min_threshold, max_threshold, num_peaks_out) ==
    num_peaks_out
    + (IF inp_sig[0] >= min_threshold /\ inp_sig[0] > inp_sig[1] THEN 1 ELSE 0)
    + Cardinality({n \in 1 .. (sig_len - 2) :
          /\ inp_sig[n] >= min_threshold
          /\ inp_sig[n] > inp_sig[n - 1]
          /\ inp_sig[n] > inp_sig[n + 1]})
    + (IF /\ inp_sig[sig_len - 1] >= min_threshold
          /\ inp_sig[sig_len - 1] > inp_sig[sig_len - 2] THEN 1 ELSE 0)

\* *num_peaks_out += 1 for every index that passes its test
tap_detect_find_peaks(inp_sig, sig_len, min_threshold, max_threshold, num_peaks_out) ==
    num_peaks_out
    + (IF FirstIsPeak(inp_sig, min_threshold, max_threshold) THEN 1 ELSE 0)
    + InteriorPeaks(inp_sig, sig_len, 1, min_threshold, max_threshold)
    + (IF LastIsPeak(inp_sig, sig_len, min_threshold, max_threshold) THEN 1 ELSE 0)

\* the indices tap_detect_find_peaks reads (&& evaluates left to right and stops)
FindPeaksReads(inp_sig, sig_len, min_threshold, max_threshold) ==
    {0}
    \cup (IF InBand(inp_sig[0], min_threshold, max_threshold) THEN {1} ELSE {})
    \cup UNION {
           {n}
           \cup (IF InBand(inp_sig[n], min_threshold, max_threshold)
                 THEN {n - 1} \cup (IF inp_sig[n] > inp_sig[n - 1] THEN {n + 1} ELSE {})
                 ELSE {})
           : n \in 1 .. (sig_len - 2) }
    \cup {sig_len - 1}
    \cup (IF InBand(inp_sig[sig_len - 1], min_threshold, max_threshold)
          THEN {sig_len - 2} ELSE {})

\* coeff_cd1 as seen through &coeff_cd1[0]; before is the word at index -1
Cd1Memory(cd1, before) ==
    [i \in (-1) .. (Cd1Cap - 1) |-> IF i = -1 THEN before ELSE cd1[i]]

(***************************************************************************)
(* Cooldown and sequencing.                                                *)
(***************************************************************************)
\* if (cooldown_block_cnt == 0): only then tap_detect_find_peaks is called
PeakDetectionRuns(cooldown) == cooldown = 0

CooldownAfter_short(cooldown, num_peaks) ==
    IF num_peaks > 0 THEN CooldownBlocks - 10
    ELSE IF cooldown = 0 THEN 0 ELSE cooldown - 1

CooldownAfter_doubleDecrement(cooldown, num_peaks) ==
    IF num_peaks > 0 THEN CooldownBlocks
    ELSE IF cooldown = 0 THEN 0
    ELSE IF cooldown = 1 THEN 0 ELSE cooldown - 2

CooldownAfter_pastWindow(cooldown, num_peaks) ==
    IF num_peaks > 0 THEN CooldownBlocks + TapWindow
    ELSE IF cooldown = 0 THEN 0 ELSE cooldown - 1

CooldownAfter_noReset(cooldown, num_peaks) ==
    IF cooldown = 0 THEN 0 ELSE cooldown - 1

\* else cooldown_block_cnt--;  if (is_new_distinct_tap) cooldown_block_cnt = 40;
CooldownAfter(cooldown, num_peaks) ==
    IF num_peaks > 0 THEN CooldownBlocks
    ELSE IF cooldown = 0 THEN 0 ELSE cooldown - 1

\* uint32_t blocks_since_first_tap = current_block_cnt - first_tap_block_time;
\* blocks_since_first_tap > window.  The difference is taken in uint32_t, modulo
\* 2^32: a negative d stands for d + 2^32, which is above every window.
WindowExpired(block_cnt, first_time, window) ==
    LET d == SubWrap32(block_cnt, first_time)
    IN  (d < 0) \/ (d > window)

\* current_block_cnt++ on int32_t.  At INT32_MAX the increment overflows, which
\* is undefined in C: a build either stores the wrapped value INT32_MIN or
\* traps, and a trapped program takes no further step.
BlockCntIncremented(block_cnt) ==
    IF block_cnt = INT32_MAX THEN {INT32_MIN} ELSE {block_cnt + 1}

Sequencer_strictWindow(is_new_distinct_tap, pending, first_time, block_cnt) ==
    IF is_new_distinct_tap
    THEN IF pending
         THEN IF ~WindowExpired(block_cnt, first_time, TapWindow - 1)
              THEN [result |-> TAP_DOUBLE, pending |-> FALSE, first_time |-> 0]
              ELSE [result |-> TAP_SINGLE, pending |-> TRUE, first_time |-> block_cnt]
         ELSE [result |-> TAP_NONE, pending |-> TRUE, first_time |-> block_cnt]
    ELSE IF pending /\ (WindowExpired(block_cnt, first_time, TapWindow))
         THEN [result |-> TAP_SINGLE, pending |-> FALSE, first_time |-> 0]
         ELSE [result |-> TAP_NONE, pending |-> pending, first_time |-> first_time]

Sequencer_earlyTimeout(is_new_distinct_tap, pending, first_time, block_cnt) ==
    IF is_new_distinct_tap
    THEN IF pending
         THEN IF ~WindowExpired(block_cnt, first_time, TapWindow)
              THEN [result |-> TAP_DOUBLE, pending |-> FALSE, first_time |-> 0]
              ELSE [result |-> TAP_SINGLE, pending |-> TRUE, first_time |-> block_cnt]
         ELSE [result |-> TAP_NONE, pending |-> TRUE, first_time |-> block_cnt]
    ELSE IF pending /\ (WindowExpired(block_cnt, first_time, TapWindow - 1))
         THEN [result |-> TAP_SINGLE, pending |-> FALSE, first_time |-> 0]
         ELSE [result |-> TAP_NONE, pending |-> pending, first_time |-> first_time]

Sequencer_noPendingTest(is_new_distinct_tap, pending, first_time, block_cnt) ==
    IF is_new_distinct_tap
    THEN IF pending
         THEN IF ~WindowExpired(block_cnt, first_time, TapWindow)
              THEN [result |-> TAP_DOUBLE, pending |-> FALSE, first_time |-> 0]
              ELSE [result |-> TAP_SINGLE, pending |-> TRUE, first_time |-> block_cnt]
         ELSE [result |-> TAP_NONE, pending |-> TRUE, first_time |-> block_cnt]
    ELSE IF WindowExpired(block_cnt, first_time, TapWindow)
         THEN [result |-> TAP_SINGLE, pending |-> FALSE, first_time |-> 0]
         ELSE [result |-> TAP_NONE, pending |-> pending, first_time |-> first_time]

Sequencer_noTimeoutReset(is_new_distinct_tap, pending, first_time, block_cnt) ==
    IF is_new_distinct_tap
    THEN IF pending
         THEN IF ~WindowExpired(block_cnt, first_time, TapWindow)
              THEN [result |-> TAP_DOUBLE, pending |-> FALSE, first_time |-> 0]
              ELSE [result |-> TAP_SINGLE, pending |-> TRUE, first_time |-> block_cnt]
         ELSE [result |-> TAP_NONE, pending |-> TRUE, first_time |-> block_cnt]
    ELSE IF pending /\ (WindowExpired(block_cnt, first_time, TapWindow))
         THEN [result |-> TAP_SINGLE, pending |-> pending, first_time |-> first_time]
         ELSE [result |-> TAP_NONE, pending |-> pending, first_time |-> first_time]

Sequencer_supersedeKeepsTime(is_new_distinct_tap, pending, first_time, block_cnt) ==
    IF is_new_distinct_tap
    THEN IF pending
         THEN IF ~WindowExpired(block_cnt, first_time, TapWindow)
              THEN [result |-> TAP_DOUBLE, pending |-> FALSE, first_time |-> 0]
              ELSE [result |-> TAP_SINGLE, pending |-> TRUE, first_time |-> first_time]
         ELSE [result |-> TAP_NONE, pending |-> TRUE, first_time |-> block_cnt]
    ELSE IF pending /\ (WindowExpired(block_cnt, first_time, TapWindow))
         THEN [result |-> TAP_SINGLE, pending |-> FALSE, first_time |-> 0]
         ELSE [result |-> TAP_NONE, pending |-> pending, first_time |-> first_time]

Sequencer_firstTapReported(is_new_distinct_tap, pending, first_time, block_cnt) ==
    IF is_new_distinct_tap
    THEN IF pending
         THEN IF ~WindowExpired(block_cnt, first_time, TapWindow)
              THEN [result |-> TAP_DOUBLE, pending |-> FALSE, first_time |-> 0]
              ELSE [result |-> TAP_SINGLE, pending |-> TRUE, first_time |-> block_cnt]
         ELSE [result |-> TAP_SINGLE, pending |-> TRUE, first_time |-> block_cnt]
    ELSE IF pending /\ (WindowExpired(block_cnt, first_time, TapWindow))
         THEN [result |-> TAP_SINGLE, pending |-> FALSE, first_time |-> 0]
         ELSE [result |-> TAP_NONE, pending |-> pending, first_time |-> first_time]

Sequencer_doubleKeepsPending(is_new_distinct_tap, pending, first_time, block_cnt) ==
    IF is_new_distinct_tap
    THEN IF pending
         THEN IF ~WindowExpired(block_cnt, first_time, TapWindow)
              THEN [result |-> TAP_DOUBLE, pending |-> pending, first_time |-> first_time]
              ELSE [result |-> TAP_SINGLE, pending |-> TRUE, first_time |-> block_cnt]
         ELSE [result |-> TAP_NONE, pending |-> TRUE, first_time |-> block_cnt]
    ELSE IF pending /\ (WindowExpired(block_cnt, first_time, TapWindow))
         THEN [result |-> TAP_SINGLE, pending |-> FALSE, first_time |-> 0]
         ELSE [result |-> TAP_NONE, pending |-> pending, first_time |-> first_time]

Sequencer_keepsTime(is_new_distinct_tap, pending, first_time, block_cnt) ==
    IF is_new_distinct_tap
    THEN IF pending
         THEN IF ~WindowExpired(block_cnt, first_time, TapWindow)
              THEN [result |-> TAP_DOUBLE, pending |-> FALSE, first_time |-> first_time]
              ELSE [result |-> TAP_SINGLE, pending |-> TRUE, first_time |-> block_cnt]
         ELSE [result |-> TAP_NONE, pending |-> TRUE, first_time |-> block_cnt]
    ELSE IF pending /\ (WindowExpired(block_cnt, first_time, TapWindow))
         THEN [result |-> TAP_SINGLE, pending |-> FALSE, first_time |-> 0]
         ELSE [result |-> TAP_NONE, pending |-> pending, first_time |-> first_time]

Sequencer_supersedeDrops(is_new_distinct_tap, pending, first_time, block_cnt) ==
    IF is_new_distinct_tap
    THEN IF pending
         THEN IF ~WindowExpired(block_cnt, first_time, TapWindow)
              THEN [result |-> TAP_DOUBLE, pending |-> FALSE, first_time |-> 0]
              ELSE [result |-> TAP_SINGLE, pending |-> FALSE, first_time |-> 0]
         ELSE [result |-> TAP_NONE, pending |-> TRUE, first_time |-> block_cnt]
    ELSE IF pending /\ (WindowExpired(block_cnt, first_time, TapWindow))
         THEN [result |-> TAP_SINGLE, pending |-> FALSE, first_time |-> 0]
         ELSE [result |-> TAP_NONE, pending |-> pending, first_time |-> first_time]

\* the tap sequence logic: result and the new first_tap_pending, first_tap_block_time
Sequencer(is_new_distinct_tap, pending, first_time, block_cnt) ==
    IF is_new_distinct_tap
    THEN IF pending
         THEN IF ~WindowExpired(block_cnt, first_time, TapWindow)
              THEN [result |-> TAP_DOUBLE, pending |-> FALSE, first_time |-> 0]
              ELSE [result |-> TAP_SINGLE, pending |-> TRUE, first_time |-> block_cnt]
         ELSE [result |-> TAP_NONE, pending |-> TRUE, first_time |-> block_cnt]
    ELSE IF pending /\ (WindowExpired(block_cnt, first_time, TapWindow))
         THEN [result |-> TAP_SINGLE, pending |-> FALSE, first_time |-> 0]
         ELSE [result |-> TAP_NONE, pending |-> pending, first_time |-> first_time]

(***************************************************************************)
(* The blocks fed to the detector.                                         *)
(***************************************************************************)
\* an amplitude inside the band (its upper end) and the first one above it
TapAmp == TRANSIENT_THRESHOLD_MAX_FXP
ClipAmp == TRANSIENT_THRESHOLD_MAX_FXP + 1

Silence(len) == [n \in 0 .. (len - 1) |-> 0]
Impulse(len, pos, amp) == [n \in 0 .. (len - 1) |-> IF n = pos THEN amp ELSE 0]

\* blocks of one length, the same samples in both microphones: silence, one
\* sample of the in-band amplitude at any index, one clipping sample at index 1
BlocksOfLen(len) ==
    {[len |-> len, mic1 |-> Silence(len), mic2 |-> Silence(len)]}
    \cup {[len |-> len, mic1 |-> Impulse(len, pos, TapAmp),
                        mic2 |-> Impulse(len, pos, TapAmp)] : pos \in 0 .. (len - 1)}
    \cup {[len |-> len, mic1 |-> Impulse(len, 1, ClipAmp),
                        mic2 |-> Impulse(len, 1, ClipAmp)]}

\* main.c: if (current_frame_len < 2) break;
MinFrameLen == 2

\* main.c cuts the audio into blocks of the frame size; only the last block of a
\* file may be shorter, down to MinFrameLen samples
Blocks == BlocksOfLen(FrameLen)
AnyLenBlocks == UNION {BlocksOfLen(len) : len \in MinFrameLen .. FrameLen}

IsSilent(blk) == \A n \in 0 .. (blk.len - 1) : blk.mic1[n] = 0 /\ blk.mic2[n] = 0

\* values the word in front of coeff_cd1 may hold
BeforeVals == {0, TapAmp, ClipAmp}

(***************************************************************************)
(* tap_detect_status, one call.  before is the value of coeff_cd1[-1].     *)
(***************************************************************************)
tap_detect_status(mic1_sig, mic2_sig, sig_len, before) ==
    \E block_cnt \in BlockCntIncremented(current_block_cnt) :
    LET sig == CombineSignals(mic1_sig, mic2_sig, sig_len, analysis_sig)
        dwt == tap_detect_haar_dwt_l1(sig, sig_len, coeff_cd1)
        mem == Cd1Memory(dwt.coeff, before)
        runs == PeakDetectionRuns(cooldown_block_cnt)
        num_peaks ==
            IF runs
            THEN tap_detect_find_peaks(mem, dwt.cd_len_out,
                     TRANSIENT_THRESHOLD_MIN_FXP, TRANSIENT_THRESHOLD_MAX_FXP, 0)
            ELSE 0
        is_new_distinct_tap == num_peaks > 0
        seq == Sequencer(is_new_distinct_tap, first_tap_pending,
                         first_tap_block_time, block_cnt)
        \* the block holds a peak of the band, whether or not detection ran
        qualifying ==
            (dwt.cd_len_out >= 2)
            /\ tap_detect_find_peaks(mem, dwt.cd_len_out,
                   TRANSIENT_THRESHOLD_MIN_FXP, TRANSIENT_THRESHOLD_MAX_FXP, 0) > 0
    IN  /\ current_block_cnt' = block_cnt
        /\ analysis_sig' = sig
        /\ coeff_cd1' = dwt.coeff
        /\ audio_sig_len' = sig_len
        /\ cd_len' = dwt.cd_len_out
        /\ peaks_checked' = runs
        /\ num_peaks_this_block' = num_peaks
        /\ cd1_reads' =
              IF runs
              THEN FindPeaksReads(mem, dwt.cd_len_out,
                       TRANSIENT_THRESHOLD_MIN_FXP, TRANSIENT_THRESHOLD_MAX_FXP)
              ELSE {}
        /\ cooldown_block_cnt' = CooldownAfter(cooldown_block_cnt, num_peaks)
        /\ result' = seq.result
        /\ first_tap_pending' = seq.pending
        /\ first_tap_block_time' = seq.first_time
        /\ last_peak_block' = IF is_new_distinct_tap THEN block_cnt ELSE last_peak_block
        /\ train' =
              IF ~qualifying THEN 0
              ELSE IF train > 0 THEN train + 1
              ELSE IF ~first_tap_pending /\ cooldown_block_cnt = 0 THEN 1 ELSE 0
        /\ all_silent' = (all_silent /\ (\A n \in 0 .. (sig_len - 1) :
                                            mic1_sig[n] = 0 /\ mic2_sig[n] = 0))
        /\ mic_sig' = << mic1_sig, mic2_sig >>
        /\ overflow' = ( \/ overflow
                         \/ SumOverflows(mic1_sig, mic2_sig, sig_len)
                         \/ HaarOverflows(sig, sig_len) )
        /\ calls_since_first_tap' =
              IF seq.pending /\ ~is_new_distinct_tap
              THEN calls_since_first_tap + 1 ELSE 0
        /\ unreported' =
              unreported + (IF is_new_distinct_tap THEN 1 ELSE 0)
              - (IF seq.result = TAP_SINGLE THEN 1
                 ELSE IF seq.result = TAP_DOUBLE THEN 2 ELSE 0)
        /\ since_result' =
              IF seq.result # TAP_NONE THEN 0
              ELSE IF since_result < SpacingCap THEN since_result + 1
              ELSE SpacingCap
        /\ result_gap' =
              IF seq.result # TAP_NONE THEN since_result + 1 ELSE result_gap
        /\ UNCHANGED first_transient

(***************************************************************************)
(* Specifications.                                                         *)
(***************************************************************************)
InitCounters ==
    /\ analysis_sig = [n \in SigIdx |-> 0]
    /\ cooldown_block_cnt = InitialCooldown
    /\ current_block_cnt = 0
    /\ first_tap_pending = FALSE
    /\ first_tap_block_time = 0
    /\ result = TAP_NONE
    /\ audio_sig_len = 0
    /\ num_peaks_this_block = 0
    /\ peaks_checked = FALSE
    /\ cd1_reads = {}
    /\ last_peak_block = 0
    /\ train = 0
    /\ all_silent = TRUE
    /\ mic_sig = << <<>>, <<>> >>
    /\ overflow = FALSE
    /\ calls_since_first_tap = 0
    /\ unreported = 0
    /\ since_result = SpacingCap
    /\ result_gap = SpacingCap + 1

InitDetector ==
    /\ InitCounters
    /\ coeff_cd1 = [n \in Cd1Idx |-> 0]
    /\ cd_len = 0

Init == InitDetector /\ first_transient = 0

\* the detector fed blocks of the frame size
Next ==
    \E blk \in Blocks :
        /\ current_block_cnt < MaxBlocks
        /\ tap_detect_status(blk.mic1, blk.mic2, blk.len, 0)

Spec == Init /\ [][Next]_vars

\* the detector fed blocks of every length main.c lets through
NextAnyLen ==
    \E blk \in AnyLenBlocks, before \in BeforeVals :
        /\ current_block_cnt < MaxShortBlocks
        /\ tap_detect_status(blk.mic1, blk.mic2, blk.len, before)

SpecAnyLen == Init /\ [][NextAnyLen]_vars

\* number of peaks of the band among the detail coefficients of a block
BlockPeaks(blk) ==
    LET sig == CombineSignals(blk.mic1, blk.mic2, blk.len, [n \in SigIdx |-> 0])
        dwt == tap_detect_haar_dwt_l1(sig, blk.len, [n \in Cd1Idx |-> 0])
    IN  tap_detect_find_peaks(Cd1Memory(dwt.coeff, 0), dwt.cd_len_out,
            TRANSIENT_THRESHOLD_MIN_FXP, TRANSIENT_THRESHOLD_MAX_FXP, 0)

\* scenario C: blocks first_transient and first_transient + 100 hold a peak of
\* the band, every other block is silent
ScenarioCBlock(blk, block_cnt) ==
    IF block_cnt \in {first_transient, first_transient + 100}
    THEN BlockPeaks(blk) > 0
    ELSE IsSilent(blk)

InitC == InitDetector /\ first_transient \in 1 .. MaxFirst

NextC ==
    \E blk \in Blocks :
        /\ current_block_cnt < MaxBlocks
        /\ ScenarioCBlock(blk, current_block_cnt + 1)
        /\ tap_detect_status(blk.mic1, blk.mic2, blk.len, 0)

SpecC == InitC /\ [][NextC]_vars

\* tap_detect_find_peaks alone, on any coefficient sequence of length >= 2
PeakVals == {0 - TRANSIENT_THRESHOLD_MIN_FXP, 0, TRANSIENT_THRESHOLD_MIN_FXP - 1,
             TRANSIENT_THRESHOLD_MIN_FXP, TRANSIENT_THRESHOLD_MAX_FXP,
             TRANSIENT_THRESHOLD_MAX_FXP + 1}

InitPeaks ==
    /\ InitCounters
    /\ coeff_cd1 \in [Cd1Idx -> PeakVals]
    /\ cd_len \in 2 .. Cd1Cap
    /\ first_transient = 0

FindPeaksCall ==
    /\ ~peaks_checked
    /\ peaks_checked' = TRUE
    /\ num_peaks_this_block' =
          tap_detect_find_peaks(Cd1Memory(coeff_cd1, 0), cd_len,
              TRANSIENT_THRESHOLD_MIN_FXP, TRANSIENT_THRESHOLD_MAX_FXP, 0)
    /\ cd1_reads' =
          FindPeaksReads(Cd1Memory(coeff_cd1, 0), cd_len,
              TRANSIENT_THRESHOLD_MIN_FXP, TRANSIENT_THRESHOLD_MAX_FXP)
    /\ UNCHANGED << analysis_sig, coeff_cd1, cooldown_block_cnt, current_block_cnt,
                    first_tap_pending, first_tap_block_time, result, audio_sig_len,
                    cd_len, last_peak_block, train, all_silent, first_transient,
                    mic_sig, overflow, calls_since_first_tap, unreported,
                    since_result, result_gap >>

NextPeaks == FindPeaksCall

SpecPeaks == InitPeaks /\ [][NextPeaks]_vars

\* Q2.29 samples: -2.0 .. +1.999..., the integers -2^30 .. 2^30 - 1
SampleMin == INT32_MIN \div 2
SampleMax == INT32_MAX \div 2
RangeVals == {SampleMin, 0 - 1, 0, SampleMax}

TwoSamples(len, x, y) ==
    [n \in 0 .. (len - 1) |-> IF n = 0 THEN x ELSE IF n = 1 THEN y ELSE 0]

\* blocks whose first two samples lie anywhere in RangeVals, each microphone
\* on its own
RangeBlocks ==
    {[len |-> FrameLen, mic1 |-> TwoSamples(FrameLen, a, c),
                        mic2 |-> TwoSamples(FrameLen, b, d)] :
        a \in RangeVals, b \in RangeVals, c \in RangeVals, d \in RangeVals}

\* the signal path of the detector on samples of the whole Q2.29 range
NextRange ==
    \E blk \in RangeBlocks :
        /\ current_block_cnt < MaxRangeBlocks
        /\ tap_detect_status(blk.mic1, blk.mic2, blk.len, 0)

SpecRange == Init /\ [][NextRange]_vars

\* the detector after INT32_MAX - WrapLead blocks of silence: the counter is
\* WrapLead calls from its maximum, the initial cooldown has run out, and the
\* rest is as every silent call leaves it
InitWrap ==
    /\ analysis_sig = [n \in SigIdx |-> 0]
    /\ coeff_cd1 = [n \in Cd1Idx |-> 0]
    /\ cooldown_block_cnt = 0
    /\ current_block_cnt = INT32_MAX - WrapLead
    /\ first_tap_pending = FALSE
    /\ first_tap_block_time = 0
    /\ result = TAP_NONE
    /\ audio_sig_len = FrameLen
    /\ cd_len = FrameLen \div 2
    /\ num_peaks_this_block = 0
    /\ peaks_checked = TRUE
    /\ cd1_reads = FindPeaksReads(Cd1Memory([n \in Cd1Idx |-> 0], 0), FrameLen \div 2,
                      TRANSIENT_THRESHOLD_MIN_FXP, TRANSIENT_THRESHOLD_MAX_FXP)
    /\ last_peak_block = 0
    /\ train = 0
    /\ all_silent = TRUE
    /\ first_transient = 0
    /\ mic_sig = << Silence(FrameLen), Silence(FrameLen) >>
    /\ overflow = FALSE
    /\ calls_since_first_tap = 0
    /\ unreported = 0
    /\ since_result = SpacingCap
    /\ result_gap = SpacingCap + 1

\* the calls up to and past the overflow of current_block_cnt
NextWrap ==
    \E blk \in Blocks :
        /\ (current_block_cnt > 0) \/ (current_block_cnt < INT32_MIN + WrapTail)
        /\ tap_detect_status(blk.mic1, blk.mic2, blk.len, 0)

SpecWrap == InitWrap /\ [][NextWrap]_vars

\* a silent block and a block with one tap: what the timing of results depends on
SpacingBlocks ==
    {[len |-> FrameLen, mic1 |-> Silence(FrameLen), mic2 |-> Silence(FrameLen)],
     [len |-> FrameLen, mic1 |-> Impulse(FrameLen, 1, TapAmp),
                        mic2 |-> Impulse(FrameLen, 1, TapAmp)]}

\* the detector fed taps and silence, for longer than under Spec
NextSpacing ==
    \E blk \in SpacingBlocks :
        /\ current_block_cnt < MaxSpacingBlocks
        /\ tap_detect_status(blk.mic1, blk.mic2, blk.len, 0)

SpecSpacing == Init /\ [][NextSpacing]_vars

(***************************************************************************)
(* Properties.  In the action formulas an unprimed variable is its value   *)
(* at entry of a call of tap_detect_status and a primed one its value at   *)
(* return; cooldown_block_cnt = 0 at entry is "cooldown expired".          *)
(***************************************************************************)

\* C1 (double-tap pairing): a call that registers a new peak (cooldown expired at
\* entry, peak count > 0) at block counter b2 while a first tap recorded at b1
\* is pending and b2 - b1 <= 130 returns double-tap and leaves no tap pending.
C1_DoubleTapPairing ==
    [][ ( /\ cooldown_block_cnt = 0
          /\ num_peaks_this_block' > 0
          /\ first_tap_pending
          /\ current_block_cnt' - first_tap_block_time <= TapWindow )
        => ( /\ result' = TAP_DOUBLE
             /\ ~first_tap_pending'
             /\ first_tap_block_time' = 0 ) ]_vars

\* a call has just paired a second peak with a pending first tap
C1_Witness ==
    /\ result = TAP_DOUBLE
    /\ peaks_checked
    /\ num_peaks_this_block > 0
    /\ ~first_tap_pending

\* C2 as stated (single-tap deadline): the single-tap of a pending transient of
\* block b1 that times out is returned by a call whose block counter is no later
\* than b1 + 130; one superseded by a transient at b2 is returned at b2, and b2
\* becomes the pending first tap.
C2_SingleTapByWindowEnd ==
    [][ (first_tap_pending /\ result' = TAP_SINGLE)
        => IF num_peaks_this_block' > 0
           THEN first_tap_pending' /\ first_tap_block_time' = current_block_cnt'
           ELSE current_block_cnt' - first_tap_block_time <= TapWindow ]_vars

\* C2 as amended: the single-tap of a transient registered at block b1 is
\* returned by the call with block counter b1 + 131, and by no other call: on
\* timeout the detector goes idle, and when a transient is registered in that
\* call it becomes the new pending first tap.
C2_SingleTapDeadline ==
    [][ /\ (result' = TAP_SINGLE) => first_tap_pending
        /\ first_tap_pending =>
             LET e == current_block_cnt' - first_tap_block_time
             IN  /\ e <= TapWindow + 1
                 /\ (result' = TAP_SINGLE) <=> (e = TapWindow + 1)
                 /\ (e = TapWindow + 1 /\ num_peaks_this_block' = 0)
                      => ~first_tap_pending'
                 /\ (e = TapWindow + 1 /\ num_peaks_this_block' > 0)
                      => ( /\ first_tap_pending'
                           /\ first_tap_block_time' = current_block_cnt' ) ]_vars

\* a pending tap has just timed out into a single-tap, 131 blocks after the last
\* registered peak
C2_Witness ==
    /\ result = TAP_SINGLE
    /\ ~first_tap_pending
    /\ num_peaks_this_block = 0
    /\ current_block_cnt - last_peak_block = TapWindow + 1

\* C3 (initial state): before the first call block_counter is 0, no tap is
\* pending, first_tap_block_time is 0 and cooldown_remaining is 0, so the first
\* processed block is searched for peaks.
C3_InitialState ==
    /\ (current_block_cnt = 0)
         => ( /\ ~first_tap_pending
              /\ first_tap_block_time = 0
              /\ cooldown_block_cnt = 0 )
    /\ (current_block_cnt = 1) => peaks_checked

\* C4 (scenario C): with band-qualifying peaks in exactly the blocks
\* first_transient and first_transient + 100 and silence elsewhere, double-tap is
\* returned at the second transient's block and nowhere else, and single-tap
\* never, wherever the first transient falls.
C4_ScenarioC ==
    /\ result # TAP_SINGLE
    /\ (result = TAP_DOUBLE) <=> (current_block_cnt = first_transient + 100)

\* C5 (cooldown suppression): entered with cooldown_remaining > 0 a call
\* decrements it by one and does not run the peak detector; entered with 0 on a
\* block with a qualifying peak it sets it to 40; so a peak registered at block
\* k is followed by no registered peak in blocks k+1 .. k+40.
C5_CooldownSuppression ==
    [][ /\ (cooldown_block_cnt > 0)
          => ( /\ cooldown_block_cnt' = cooldown_block_cnt - 1
               /\ ~peaks_checked'
               /\ num_peaks_this_block' = 0 )
        /\ ( /\ cooldown_block_cnt = 0
             /\ tap_detect_find_peaks(Cd1Memory(coeff_cd1', 0), cd_len',
                    TRANSIENT_THRESHOLD_MIN_FXP, TRANSIENT_THRESHOLD_MAX_FXP, 0) > 0 )
          => ( /\ peaks_checked'
               /\ num_peaks_this_block' > 0
               /\ cooldown_block_cnt' = 40 )
        /\ (num_peaks_this_block' > 0 /\ last_peak_block > 0)
          => current_block_cnt' - last_peak_block > 40 ]_vars

\* a block with a qualifying peak was absorbed by the cooldown of the peak
\* registered one block earlier
C5_Witness ==
    /\ train = 2
    /\ ~peaks_checked
    /\ num_peaks_this_block = 0
    /\ cooldown_block_cnt = 39
    /\ last_peak_block = current_block_cnt - 1

\* C6 as stated (debounce): in a train of peak-qualifying blocks k, k+1, ... of
\* any length that starts in IDLE with the cooldown expired, no block after k
\* registers a peak, moves IDLE to WAITING_FOR_SECOND or returns double-tap.
C6_DebounceAnyLength ==
    [][ (train' >= 2)
        => ( /\ num_peaks_this_block' = 0
             /\ ~(~first_tap_pending /\ first_tap_pending')
             /\ result' # TAP_DOUBLE ) ]_vars

\* C6 as amended: the same for the blocks k+1 .. k+40 of the train, the ones
\* the cooldown of block k covers.
C6_Debounce ==
    [][ (train' >= 2 /\ train' <= CooldownBlocks + 1)
        => ( /\ num_peaks_this_block' = 0
             /\ ~(~first_tap_pending /\ first_tap_pending')
             /\ result' # TAP_DOUBLE ) ]_vars

\* the 41st block of a train: the tap of its first block is still the pending one
C6_Witness ==
    /\ train = CooldownBlocks + 1
    /\ first_tap_pending
    /\ first_tap_block_time = current_block_cnt - CooldownBlocks
    /\ cooldown_block_cnt = 0
    /\ result = TAP_NONE

\* indices of analysis_sig the averaging loop writes, and the Haar transform reads
AnalysisWrites(sig_len) == 0 .. (sig_len - 1)
HaarReads(sig_len) ==
    UNION {{2 * n, (2 * n) + 1} : n \in 0 .. ((sig_len \div 2) - 1)}
\* indices of coeff_cd1 the Haar transform writes
Cd1Writes(sig_len) == 0 .. ((sig_len \div 2) - 1)

\* C7 (block-length safety): in every call with 2 <= len <= 192 the peak
\* detector is invoked with n >= 2 coefficients, and the buffers are read and
\* written inside their bounds, coeff_cd1 inside 0 .. n-1.
C7_BlockLengthSafety ==
    (audio_sig_len >= 2 /\ audio_sig_len <= MAX_AUDIO_FRAME_SIZE)
    => ( /\ peaks_checked => cd_len >= 2
         /\ cd1_reads \subseteq 0 .. (cd_len - 1)
         /\ AnalysisWrites(audio_sig_len) \subseteq 0 .. (MAX_SIG_LEN_SIZE - 1)
         /\ HaarReads(audio_sig_len) \subseteq AnalysisWrites(audio_sig_len)
         /\ Cd1Writes(audio_sig_len) \subseteq 0 .. (MAX_CD1_LEN - 1) )

\* C8 (silence): as long as every sample of every block was 0, every call
\* returned no-tap and no tap is pending.
C8_Silence ==
    all_silent => (result = TAP_NONE /\ ~first_tap_pending)

\* silence has lasted past the initial cooldown and a whole pairing window
C8_Witness ==
    /\ all_silent
    /\ peaks_checked
    /\ current_block_cnt > InitialCooldown + TapWindow + 1

\* exactly one of the n coefficients is not 0, and it is above the band
ClipOnly(cd1, n) ==
    \E i \in 0 .. (n - 1) :
        /\ cd1[i] > TRANSIENT_THRESHOLD_MAX_FXP
        /\ \A j \in 0 .. (n - 1) : (j # i) => (cd1[j] = 0)

\* C9 (clipping rejection): IDLE with the cooldown expired, a block whose only
\* non-zero detail coefficient exceeds TRANSIENT_THRESHOLD_MAX_FXP returns
\* no-tap, leaves no tap pending and first_tap_block_time unchanged, and does
\* not reset the cooldown.
C9_ClippingRejected ==
    [][ ( /\ ~first_tap_pending
          /\ cooldown_block_cnt = 0
          /\ ClipOnly(coeff_cd1', cd_len') )
        => ( /\ result' = TAP_NONE
             /\ ~first_tap_pending'
             /\ first_tap_block_time' = first_tap_block_time
             /\ cooldown_block_cnt' = 0 ) ]_vars

\* the peak detector has just run on a clipping block in IDLE
C9_Witness ==
    /\ peaks_checked
    /\ cd_len >= 2
    /\ ClipOnly(coeff_cd1, cd_len)
    /\ ~first_tap_pending
    /\ cooldown_block_cnt = 0
    /\ num_peaks_this_block = 0

StrictlyIncreasing(cd1, n) == \A i \in 0 .. (n - 2) : cd1[i] < cd1[i + 1]
StrictlyDecreasing(cd1, n) == \A i \in 0 .. (n - 2) : cd1[i] > cd1[i + 1]

\* C10 as stated (monotonic sequences): tap_detect_find_peaks reports zero peaks
\* for every strictly increasing or strictly decreasing sequence of length
\* n >= 2, also when its largest element lies inside the band.
C10_MonotonicNoPeaks ==
    ( /\ peaks_checked
      /\ StrictlyIncreasing(coeff_cd1, cd_len) \/ StrictlyDecreasing(coeff_cd1, cd_len) )
    => num_peaks_this_block = 0

\* C10 as amended: for a strictly monotonic sequence tap_detect_find_peaks
\* reports one peak when the largest element (the last of an increasing, the
\* first of a decreasing sequence) lies inside the band, and zero otherwise.
C10_MonotonicEndPeak ==
    /\ (peaks_checked /\ StrictlyIncreasing(coeff_cd1, cd_len))
         => num_peaks_this_block =
              (IF InBand(coeff_cd1[cd_len - 1], TRANSIENT_THRESHOLD_MIN_FXP,
                         TRANSIENT_THRESHOLD_MAX_FXP) THEN 1 ELSE 0)
    /\ (peaks_checked /\ StrictlyDecreasing(coeff_cd1, cd_len))
         => num_peaks_this_block =
              (IF InBand(coeff_cd1[0], TRANSIENT_THRESHOLD_MIN_FXP,
                         TRANSIENT_THRESHOLD_MAX_FXP) THEN 1 ELSE 0)

\* an increasing sequence of three coefficients, the second and third in the band
C10_Witness ==
    /\ peaks_checked
    /\ cd_len = 3
    /\ StrictlyIncreasing(coeff_cd1, cd_len)
    /\ coeff_cd1[1] = TRANSIENT_THRESHOLD_MIN_FXP
    /\ coeff_cd1[2] = TRANSIENT_THRESHOLD_MAX_FXP
    /\ num_peaks_this_block = 1

\* indices of c[0 .. n-1] inside the band and strictly above each neighbour they have
PeakIndices(c, n, min, max) ==
    {i \in 0 .. (n - 1) :
        /\ min <= c[i]
        /\ c[i] <= max
        /\ (i > 0) => (c[i] > c[i - 1])
        /\ (i < n - 1) => (c[i] > c[i + 1])}

\* C11 (peak count): for a coefficient sequence of length n >= 2 and the band
\* [min, max], tap_detect_find_peaks adds to its output the number of indices
\* inside the band and strictly above each existing neighbour, whatever the
\* output held before; one in-band value among zeros gives one peak.
C11_PeakCount ==
    (peaks_checked /\ cd_len >= 2)
    => LET count == Cardinality(PeakIndices(coeff_cd1, cd_len,
                        TRANSIENT_THRESHOLD_MIN_FXP, TRANSIENT_THRESHOLD_MAX_FXP))
       IN  /\ num_peaks_this_block = count
           /\ \A out \in 0 .. 2 :
                 tap_detect_find_peaks(Cd1Memory(coeff_cd1, 0), cd_len,
                     TRANSIENT_THRESHOLD_MIN_FXP, TRANSIENT_THRESHOLD_MAX_FXP, out)
                 = out + count
           /\ ( \E i \in 0 .. (cd_len - 1) :
                    /\ InBand(coeff_cd1[i], TRANSIENT_THRESHOLD_MIN_FXP,
                              TRANSIENT_THRESHOLD_MAX_FXP)
                    /\ \A j \in 0 .. (cd_len - 1) : (j # i) => (coeff_cd1[j] = 0) )
               => num_peaks_this_block = 1

\* two equal in-band values next to each other, then a lower one: no index is a
\* peak, the middle one for its equal left neighbour
C11_Witness ==
    /\ peaks_checked
    /\ cd_len = 3
    /\ coeff_cd1[0] = TRANSIENT_THRESHOLD_MIN_FXP
    /\ coeff_cd1[1] = TRANSIENT_THRESHOLD_MIN_FXP
    /\ coeff_cd1[2] = 0
    /\ num_peaks_this_block = 0

\* C12 (Haar level-1 transform): for a signal of length len >= 2 the transform
\* outputs len >> 1 coefficients, coefficient n = signal[2n+1] - signal[2n],
\* writes nothing past index (len >> 1) - 1, and for odd len does not read the
\* trailing sample.
C12_HaarTransform ==
    [][ (audio_sig_len' >= 2)
        => ( /\ cd_len' = audio_sig_len' \div 2
             /\ \A n \in Cd1Idx :
                   coeff_cd1'[n] =
                     IF n <= (audio_sig_len' \div 2) - 1
                     THEN analysis_sig'[(2 * n) + 1] - analysis_sig'[2 * n]
                     ELSE coeff_cd1[n]
             /\ (audio_sig_len' % 2 = 1)
                   => (audio_sig_len' - 1) \notin HaarReads(audio_sig_len') ) ]_vars

\* a block of three samples with the impulse in the trailing one, after a longer
\* block that left a coefficient at index 1: one coefficient, 0, and the old
\* value at index 1 still there
C12_Witness ==
    /\ audio_sig_len = 3
    /\ analysis_sig[2] = TapAmp
    /\ cd_len = 1
    /\ coeff_cd1[0] = 0
    /\ coeff_cd1[1] = TapAmp

\* C13 (timeout transition): a call that registers no peak while a tap recorded
\* at block b1 is pending returns single-tap exactly when block_counter - b1 >
\* 130, and then clears the pending tap and first_tap_block_time; that is the
\* call of block b1 + 131, and with no tap pending a call without a peak returns
\* no-tap, so the single-tap comes once.
C13_TimeoutTransition ==
    [][ /\ (first_tap_pending /\ num_peaks_this_block' = 0)
          => LET e == current_block_cnt' - first_tap_block_time
             IN  /\ (result' = TAP_SINGLE) <=> (e > TapWindow)
                 /\ (e > TapWindow)
                      => ( /\ ~first_tap_pending'
                           /\ first_tap_block_time' = 0
                           /\ current_block_cnt' = first_tap_block_time + TapWindow + 1 )
        /\ (~first_tap_pending /\ num_peaks_this_block' = 0)
          => (result' = TAP_NONE /\ ~first_tap_pending') ]_vars

\* a pending tap has just timed out: single-tap returned by a call that ran the
\* peak detector and found nothing, and the detector idle again
C13_Witness ==
    /\ result = TAP_SINGLE
    /\ peaks_checked
    /\ num_peaks_this_block = 0
    /\ cooldown_block_cnt = 0
    /\ ~first_tap_pending
    /\ first_tap_block_time = 0

\* C14 (superseded first tap): a call that registers a peak while a tap is
\* pending and block_counter - first_tap_block_time > 130 returns single-tap,
\* keeps a tap pending and sets first_tap_block_time to the block counter.
C14_SupersededFirstTap ==
    [][ ( /\ num_peaks_this_block' > 0
          /\ first_tap_pending
          /\ current_block_cnt' - first_tap_block_time > TapWindow )
        => ( /\ result' = TAP_SINGLE
             /\ first_tap_pending'
             /\ first_tap_block_time' = current_block_cnt' ) ]_vars

\* a peak registered with the pending tap out of its window
C14_Witness ==
    /\ result = TAP_SINGLE
    /\ num_peaks_this_block > 0
    /\ first_tap_pending
    /\ first_tap_block_time = current_block_cnt
    /\ cooldown_block_cnt = CooldownBlocks

\* C15 (no-event frame): a call that registers no peak with no tap pending, or
\* with one pending for at most 130 blocks, returns no-tap and leaves
\* first_tap_pending and first_tap_block_time as they were; a call that
\* registers a peak with no tap pending returns no-tap, makes the tap pending
\* and sets first_tap_block_time to the block counter.
C15_NoEventFrame ==
    [][ /\ ( /\ num_peaks_this_block' = 0
             /\ ~first_tap_pending
                \/ current_block_cnt' - first_tap_block_time <= TapWindow )
          => ( /\ result' = TAP_NONE
               /\ first_tap_pending' = first_tap_pending
               /\ first_tap_block_time' = first_tap_block_time )
        /\ (num_peaks_this_block' > 0 /\ ~first_tap_pending)
          => ( /\ result' = TAP_NONE
               /\ first_tap_pending'
               /\ first_tap_block_time' = current_block_cnt' ) ]_vars

\* the first tap has just been registered with nothing pending before
C15_Witness ==
    /\ result = TAP_NONE
    /\ num_peaks_this_block > 0
    /\ first_tap_pending
    /\ first_tap_block_time = current_block_cnt

\* floor((x + y) / 2) and floor((x - y) / 2) of the exact sum and difference,
\* from the halves of x and y
FloorHalfSum(x, y) == (x \div 2) + (y \div 2) + (((x % 2) + (y % 2)) \div 2)
FloorHalfDiff(x, y) == ((x \div 2) - (y \div 2)) + (((x % 2) - (y % 2)) \div 2)

\* v lies in INT32_MIN .. INT32_MAX, given floor(v / 2)
HalfFitsInt32(h) == (h >= INT32_MIN \div 2) /\ (h <= INT32_MAX \div 2)

\* C16 (no overflow in the signal path): with all samples a, b of both
\* microphones in -2^30 .. 2^30 - 1, every sum a + b fits the 32-bit int, the
\* combined sample is floor((a + b) / 2), and the difference of any two
\* combined samples fits the 32-bit int: nothing overflowed.
C16_NoOverflow ==
    ( /\ current_block_cnt > 0
      /\ \A n \in 0 .. (audio_sig_len - 1), m \in {1, 2} :
            mic_sig[m][n] >= SampleMin /\ mic_sig[m][n] <= SampleMax )
    => ( /\ ~overflow
         /\ \A n \in 0 .. (audio_sig_len - 1) :
               /\ HalfFitsInt32(FloorHalfSum(mic_sig[1][n], mic_sig[2][n]))
               /\ analysis_sig[n] = FloorHalfSum(mic_sig[1][n], mic_sig[2][n])
         /\ \A i \in 0 .. (audio_sig_len - 1), j \in 0 .. (audio_sig_len - 1) :
               HalfFitsInt32(FloorHalfDiff(analysis_sig[i], analysis_sig[j]))
         /\ \A n \in 0 .. (cd_len - 1) :
               coeff_cd1[n] = analysis_sig[(2 * n) + 1] - analysis_sig[2 * n] )

\* both microphones at the lowest value in sample 0 and at the highest in
\* sample 1: the sum -2^31 and the difference 2^31 - 1, the ends of int
C16_Witness ==
    /\ current_block_cnt > 0
    /\ mic_sig[1][0] = SampleMin /\ mic_sig[2][0] = SampleMin
    /\ mic_sig[1][1] = SampleMax /\ mic_sig[2][1] = SampleMax
    /\ analysis_sig[0] = SampleMin
    /\ analysis_sig[1] = SampleMax
    /\ coeff_cd1[0] = INT32_MAX
    /\ ~overflow

\* C17 (block counter): every call increases block_counter by exactly one and
\* never decreases it, and the elapsed count block_counter -
\* first_tap_block_time of the window test is the number of calls since the
\* pending tap was recorded, also across the end of the 32-bit range.
C17_BlockCounter ==
    [][ /\ current_block_cnt' > current_block_cnt
        /\ current_block_cnt' - 1 = current_block_cnt
        /\ first_tap_pending
             => SubWrap32(current_block_cnt', first_tap_block_time)
                = calls_since_first_tap + 1 ]_vars

\* C18 (pending window): after every call, a pending tap has 0 <=
\* block_counter - first_tap_block_time <= 130, and with no tap pending
\* first_tap_block_time is 0; so a call that registers a peak and returns
\* single-tap (the superseded branch) has an elapsed count of exactly 131.
C18_PendingWindow ==
    [][ /\ first_tap_pending'
          => ( /\ current_block_cnt' - first_tap_block_time' >= 0
               /\ current_block_cnt' - first_tap_block_time' <= TapWindow )
        /\ ~first_tap_pending' => (first_tap_block_time' = 0)
        /\ (first_tap_pending /\ num_peaks_this_block' > 0 /\ result' = TAP_SINGLE)
          => (current_block_cnt' - first_tap_block_time = TapWindow + 1) ]_vars

\* a tap pending for the whole window: the call of its 130th block returned
\* no-tap and left it pending
C18_Witness ==
    /\ first_tap_pending
    /\ current_block_cnt - first_tap_block_time = TapWindow
    /\ calls_since_first_tap = TapWindow
    /\ result = TAP_NONE

\* C19 (transient conservation): after any sequence of calls the number of
\* registered peaks is the number of single-tap results plus twice the number
\* of double-tap results, plus one when a tap is pending; unreported is the
\* first number minus the other two.
C19_TransientConservation ==
    unreported = (IF first_tap_pending THEN 1 ELSE 0)

\* a double-tap has just been returned: two registered peaks more, one
\* double-tap more, nothing pending
C19_Witness ==
    /\ result = TAP_DOUBLE
    /\ num_peaks_this_block > 0
    /\ ~first_tap_pending
    /\ unreported = 0

\* C20 (double-tap gap): whenever a call returns double-tap, a tap was pending
\* and the block that registered it lies at least 41 and at most 130 blocks
\* back; registered peaks less than 41 blocks apart are never paired.
C20_DoubleTapGap ==
    [][ (result' = TAP_DOUBLE)
        => ( /\ first_tap_pending
             /\ num_peaks_this_block' > 0
             /\ current_block_cnt' - first_tap_block_time >= CooldownBlocks + 1
             /\ current_block_cnt' - first_tap_block_time <= TapWindow
             /\ calls_since_first_tap + 1 = current_block_cnt' - first_tap_block_time
             /\ last_peak_block = first_tap_block_time ) ]_vars

\* the earliest double-tap there is: the first peak right after the initial
\* cooldown, the second 41 blocks later
C20_Witness ==
    /\ result = TAP_DOUBLE
    /\ current_block_cnt = InitialCooldown + 1 + CooldownBlocks + 1
    /\ ~first_tap_pending

\* C21 (cooldown blocks are silent): a call entered with cooldown_remaining > 0
\* returns no-tap; whenever a tap is pending, cooldown_remaining is
\* max(0, 40 - (block_counter - first_tap_block_time)); and cooldown_remaining
\* is always within 0 .. 100.
C21_CooldownSilent ==
    [][ /\ (cooldown_block_cnt > 0) => (result' = TAP_NONE)
        /\ first_tap_pending'
             => LET left == 40 - (current_block_cnt' - first_tap_block_time')
                IN  cooldown_block_cnt' = (IF left > 0 THEN left ELSE 0)
        /\ cooldown_block_cnt >= 0 /\ cooldown_block_cnt <= 100
        /\ cooldown_block_cnt' >= 0 /\ cooldown_block_cnt' <= 100 ]_vars

\* the last cooldown block after a registered first tap: the call was entered
\* with cooldown 1, 40 blocks after the tap, and returned no-tap
C21_Witness ==
    /\ first_tap_pending
    /\ current_block_cnt - first_tap_block_time = CooldownBlocks
    /\ cooldown_block_cnt = 0
    /\ ~peaks_checked
    /\ result = TAP_NONE

\* C22 (minimum event spacing): any two calls that return single-tap or
\* double-tap are at least 41 blocks apart: a call that returns one comes at
\* least 41 calls after the previous such call.
C22_MinimumEventSpacing ==
    [][ (result' # TAP_NONE)
        => ( /\ since_result + 1 >= 41
             /\ result_gap' >= 41 ) ]_vars

\* the closest pair there is: a double-tap 41 blocks after the single-tap of a
\* superseded first tap
C22_Witness ==
    /\ result = TAP_DOUBLE
    /\ since_result = 0
    /\ result_gap = CooldownBlocks + 1

====
